---- MODULE Spec2Model ----
(***************************************************************************)
(* State-machine model of the document-analyser service.                   *)
(*                                                                         *)
(*   server (src/unnamed/part_000): the express application, its two       *)
(*     process-wide variables lastDocumentText / lastExtracted, the        *)
(*     session middleware and the six route handlers;                      *)
(*   src/geminiService.js: getModel, pickTextFromAiMessage, safeParseJson, *)
(*     extractFields, formatHistoryForPrompt, answerQuestion,              *)
(*     extractTextFromFile.                                                *)
(*                                                                         *)
(* A JavaScript string is a sequence of tokens (TLA+ strings); a token is  *)
(* a whitespace character, a word, a JSON literal or the three-backtick    *)
(* fence.  Every `await` that can suspend a handler while other requests   *)
(* run is a separate action; the code between two suspension points runs   *)
(* to completion on the event loop and is one action.                      *)
(***************************************************************************)
EXTENDS Integers, Sequences, FiniteSets, Bags, TLC

(***************************************************************************)
(* Bounds of the model.                                                    *)
(***************************************************************************)
MaxReq == 2        \* requests in flight at the same time
MaxTurns == 1      \* an ask is only issued while its session holds fewer turns
MaxTurnsLong == 2  \* the same, in the workload with longer histories
MaxClock == 1      \* largest value Date.now() takes, where the clock advances
MaxHistory == 14    \* longest history a session starts with, for the prompts

Sessions == {"s1", "s2"}

(***************************************************************************)
(* Strings.                                                                *)
(***************************************************************************)
Whitespace == {" ", "\n"}

SetMin(S) == CHOOSE x \in S : \A y \in S : x <= y
SetMax(S) == CHOOSE x \in S : \A y \in S : y <= x

\* String.prototype.trim
Trim(s) ==
  LET keep == {i \in 1..Len(s) : s[i] \notin Whitespace}
  IN  IF keep = {} THEN <<>> ELSE SubSeq(s, SetMin(keep), SetMax(keep))

\* Array.prototype.join(sep) over an array of strings
RECURSIVE Join(_, _)
Join(parts, sep) ==
  IF Len(parts) = 0 THEN <<>>
  ELSE IF Len(parts) = 1 THEN parts[1]
  ELSE parts[1] \o sep \o Join(Tail(parts), sep)

(***************************************************************************)
(* JavaScript values produced by JSON.parse and by safeParseJson.          *)
(* kind "object" with raw = TRUE is the fallback object {raw: body}.       *)
(***************************************************************************)
Null == [kind |-> "null", raw |-> FALSE, body |-> <<>>]
SyntaxError == [kind |-> "SyntaxError", raw |-> FALSE, body |-> <<>>]

JsonKind(tok) ==
  CASE tok \in {"{A}", "{B}"} -> "object"
    [] tok = "null" -> "null"
    [] tok \in {"0", "7"} -> "number"
    [] tok \in {"\"\"", "\"s\""} -> "string"
    [] tok = "[]" -> "array"
    [] OTHER -> "none"

\* the token standing for three consecutive backticks
Fence == "FENCE"

\* a JSON object one of whose string values holds three backticks: the text
\* up to the backticks, the backticks, the rest
ObjectQuotingFence == <<"{\"k\":\"", Fence, "\"}">>

\* JSON.parse: one JSON value with optional surrounding whitespace, or a throw
JSONparse(text) ==
  LET t == Trim(text)
  IN  IF Len(t) = 1 /\ JsonKind(t[1]) # "none"
      THEN IF JsonKind(t[1]) = "null" THEN Null
           ELSE [kind |-> JsonKind(t[1]), raw |-> FALSE, body |-> t]
      ELSE IF t = ObjectQuotingFence
      THEN [kind |-> "object", raw |-> FALSE, body |-> t]
      ELSE SyntaxError
JsonTag == {"json", "JSON"}

\* text.match of the fence pattern (three backticks, an optional json tag in
\* either case, whitespace, a lazy group, whitespace, three backticks): the
\* leftmost opening fence that is followed by a closing fence; group 1 is what
\* lies between the optional tag plus whitespace and the whitespace before
\* the first closing fence.
FenceMatch(text) ==
  LET fences == {i \in 1..Len(text) : text[i] = Fence}
  IN  IF Cardinality(fences) < 2 THEN [matched |-> FALSE, group1 |-> <<>>]
      ELSE
        LET open == SetMin(fences)
            tagged == open + 1 <= Len(text) /\ text[open + 1] \in JsonTag
            from == IF tagged THEN open + 2 ELSE open + 1
            close == SetMin({i \in fences : i >= from})
        IN  [matched |-> TRUE, group1 |-> Trim(SubSeq(text, from, close - 1))]

safeParseJsonNoDirect(text) ==
  LET fence == FenceMatch(text)
  IN  IF fence.matched /\ JSONparse(fence.group1) # SyntaxError
      THEN JSONparse(fence.group1)
      ELSE [kind |-> "object", raw |-> TRUE, body |-> Trim(text)]

safeParseJson(text) ==
  IF JSONparse(text) # SyntaxError THEN JSONparse(text)
  ELSE safeParseJsonNoDirect(text)

IsJsonObject(v) == v.kind = "object"

\* JavaScript truthiness of a parsed value (lastExtracted || null)
Truthy(v) ==
  CASE v.kind = "null" -> FALSE
    [] v.kind = "number" -> v.body # <<"0">>
    [] v.kind = "string" -> v.body # <<"\"\"">>
    [] OTHER -> TRUE

(***************************************************************************)
(* Model replies.  An AIMessage carries its content as a string or as an   *)
(* array of parts; a missing message is shape "none".                      *)
(***************************************************************************)
StringMessage(text) == [shape |-> "string", parts |-> <<text>>]

pickTextFromAiMessage(aiMessage) ==
  IF aiMessage.shape = "none" THEN <<>>
  ELSE IF aiMessage.shape = "array" THEN Join(aiMessage.parts, <<"\n">>)
  ELSE aiMessage.parts[1]

(***************************************************************************)
(* Token lengths in characters, for String.prototype.length.               *)
(***************************************************************************)
TokenLength(tok) ==
  CASE tok = "A" -> 51       \* a paragraph of 51 characters
    [] tok = "B" -> 60       \* a paragraph of 60 characters
    [] tok = "w" -> 50       \* a run of exactly 50 characters
    [] OTHER -> 1

RECURSIVE StrLength(_)
StrLength(s) == IF s = <<>> THEN 0 ELSE TokenLength(Head(s)) + StrLength(Tail(s))

(***************************************************************************)
(* Media types: sequences of tokens, "/" separating type and subtype.      *)
(***************************************************************************)
TextPlain == <<"text", "/", "plain">>
ApplicationPdf == <<"application", "/", "pdf">>
ImagePng == <<"image", "/", "png">>
ApplicationZip == <<"application", "/", "zip">>

\* String.prototype.toLowerCase, token by token
LowerToken(tok) ==
  CASE tok = "PDF" -> "pdf"
    [] tok = "IMAGE" -> "image"
    [] tok = "APPLICATION" -> "application"
    [] OTHER -> tok

toLowerCase(s) == [i \in 1..Len(s) |-> LowerToken(s[i])]

\* lower.includes("pdf")
IncludesPdf(lower) == \E i \in 1..Len(lower) : lower[i] \in {"pdf", "x-pdf"}

\* s.startsWith("image/")
StartsWithImage(s) == Len(s) >= 2 /\ s[1] = "image" /\ s[2] = "/"

\* multer's fileFilter: cb(null, true) or cb(new Error("Unsupported file type"))
fileFilter(mimetype) ==
  \/ mimetype = TextPlain
  \/ mimetype = ApplicationPdf
  \/ StartsWithImage(mimetype)

(***************************************************************************)
(* extractTextFromFile.  io is what the file system, the native PDF parser *)
(* and the vision model do during the call:                                *)
(*   io.read    TRUE when fs.readFile succeeds                             *)
(*   io.content the file's text (utf8), or the text the PDF parser finds   *)
(*   io.parse   "ok" | "throws"      (pdf-parse)                           *)
(*   io.vision  "ok" | "throws"      (generateContent / response.text())   *)
(*   io.ocr     the text the vision model returns                          *)
(* The result says whether the call threw, the text returned and how many  *)
(* vision-model and native-parse calls were made.                          *)
(***************************************************************************)
MinPdfTextLength == 50

Threw(vision, parse) == [threw |-> TRUE, text |-> <<>>, vision |-> vision, parse |-> parse]
Returned(text, vision, parse) == [threw |-> FALSE, text |-> text, vision |-> vision, parse |-> parse]

\* getGenAi, getGenerativeModel, generateContent and the trimmed text of the reply
VisionFallback(key, io, parse) ==
  IF ~key THEN Threw(0, parse)
  ELSE IF io.vision = "throws" THEN Threw(1, parse)
  ELSE Returned(Trim(io.ocr), 1, parse)

\* Faulty variant of extractTextFromFile: parsedText.length >= 50.
extractTextFromFileAtThreshold(mimeType, io, key) ==
  LET lower == toLowerCase(mimeType)
  IN  IF IncludesPdf(lower)
      THEN IF ~io.read THEN Threw(0, 0)
           ELSE IF io.parse = "ok"
                   /\ Trim(io.content) # <<>>
                   /\ StrLength(Trim(io.content)) >= MinPdfTextLength
                THEN Returned(Trim(io.content), 0, 1)
                ELSE VisionFallback(key, io, 1)
      ELSE IF StartsWithImage(lower)
      THEN IF ~key THEN Threw(0, 0)
           ELSE IF ~io.read THEN Threw(0, 0)
           ELSE VisionFallback(key, io, 0)
      ELSE IF io.read THEN Returned(io.content, 0, 0) ELSE Returned(<<>>, 0, 0)

extractTextFromFile(mimeType, io, key) ==
  LET lower == toLowerCase(mimeType)
  IN  IF IncludesPdf(lower)
      THEN IF ~io.read THEN Threw(0, 0)
           ELSE IF io.parse = "ok"
                   /\ Trim(io.content) # <<>>
                   /\ StrLength(Trim(io.content)) > MinPdfTextLength
                THEN Returned(Trim(io.content), 0, 1)
                ELSE VisionFallback(key, io, 1)
      ELSE IF StartsWithImage(lower)
      THEN IF ~key THEN Threw(0, 0)
           ELSE IF ~io.read THEN Threw(0, 0)
           ELSE VisionFallback(key, io, 0)
      ELSE IF io.read THEN Returned(io.content, 0, 0) ELSE Returned(<<>>, 0, 0)

(***************************************************************************)
(* formatHistoryForPrompt and the two prompts.  A turn is {q, a, ts}; the  *)
(* model also records with each turn the session whose request appended it *)
(* (sid) and the document text its answer was produced from (doc).  These  *)
(* two fields are history variables: no code reads them.                   *)
(***************************************************************************)
HistoryWindow == 12

\* Faulty variant of SliceLast: slice(0, n), the first n entries.
SliceFirst(items, n) ==
  IF Len(items) <= n THEN items ELSE SubSeq(items, 1, n)

\* Array.prototype.slice(-n)
SliceLast(items, n) ==
  IF Len(items) <= n THEN items ELSE SubSeq(items, Len(items) - n + 1, Len(items))

\* The history block of the prompt: <<>> when there is none, otherwise one
\* line per turn of the window, numbered from 1.
formatHistoryForPrompt(historyItems) ==
  IF Len(historyItems) = 0 THEN <<>>
  ELSE LET window == SliceLast(historyItems, HistoryWindow)
       IN  [idx \in 1..Len(window) |->
              [turn |-> idx, q |-> window[idx].q, a |-> window[idx].a,
               ts |-> window[idx].ts, sid |-> window[idx].sid, doc |-> window[idx].doc]]

NoPrompt == [document |-> <<>>, historyBlock |-> <<>>, question |-> <<>>]

\* the prompt answerQuestion sends
AnswerPrompt(documentText, question, history) ==
  [document |-> documentText, historyBlock |-> formatHistoryForPrompt(history),
   question |-> question]

\* the prompt extractFields sends
FieldsPrompt(documentText) ==
  [document |-> documentText, historyBlock |-> <<>>, question |-> <<>>]

(***************************************************************************)
(* State.                                                                  *)
(***************************************************************************)
VARIABLES
  apiKey,            \* process.env.GEMINI_API_KEY is set
  lastDocumentText,  \* the module variable of the server
  lastExtracted,     \* the module variable of the server
  store,             \* the session store: session id -> stored session
  inflight,          \* bag of the requests suspended on an await
  now,               \* the last value Date.now() returned
  resp,              \* the response sent last by upload, ask or clear
  uploadSucceeded,   \* history variable: some upload has responded 200
  lastUpload,        \* history variable: the upload whose fields are stored
  probe              \* one call of a pure function: its arguments and result

vars == <<apiKey, lastDocumentText, lastExtracted, store, inflight, now, resp,
          uploadSucceeded, lastUpload, probe>>

\* A session as the store holds it: req.session.history is undefined
\* (defined = FALSE) until a handler assigns it.
NewSession == [defined |-> FALSE, history |-> <<>>]
ResetSession == [defined |-> TRUE, history |-> <<>>]

\* req.session.history || []
HistoryOf(session) == IF session.defined THEN session.history ELSE <<>>

\* Faulty variant of ClearHistory (below): the handler empties the history
\* of every session of the store.
ClearEverySession(st, sid) == [s \in DOMAIN st |-> ResetSession]

\* Faulty variant of SaveSession: one session object shared by every client.
SaveSessionShared(st, sid, loaded, current) ==
  IF current # loaded THEN [s \in DOMAIN st |-> current] ELSE st

\* The session middleware at the end of a response (resave: false): the
\* request's own copy of the session replaces the stored one when it differs
\* from what the request loaded.
SaveSession(st, sid, loaded, current) ==
  IF current # loaded THEN [st EXCEPT ![sid] = current] ELSE st

\* A response: the route, the session of the request, the status and the
\* body (error, extracted or answer).  Three more fields are history
\* variables, read by no code: stage is the point the handler had reached
\* when it responded, got is how extractTextFromFile had settled for it
\* (thrown, or the text returned), and cleared is the number of turns the
\* session held when the response of an upload or of a clear was about to
\* be sent.
NoExtraction == [threw |-> FALSE, text |-> <<>>]
Settled(got) == [threw |-> got.threw, text |-> got.text]

NoResponse ==
  [kind |-> "none", sid |-> "none", status |-> 0, error |-> "",
   extracted |-> Null, answer |-> <<>>,
   stage |-> "none", got |-> NoExtraction, cleared |-> 0]

Response(kind, sid, status, stage) ==
  [NoResponse EXCEPT !.kind = kind, !.sid = sid, !.status = status,
                     !.stage = stage]

ErrorResponse(kind, sid, status, stage, error) ==
  [Response(kind, sid, status, stage) EXCEPT !.error = error]

\* A request suspended on an await.  session is the request's req.session as
\* the middleware loaded it; an upload never reads its copy, it only assigns
\* history, so for an upload the field keeps what the middleware keeps of the
\* loaded session: whether it already equals the session the upload will
\* write (the hash comparison deciding the save).  wrote and replaced are
\* history variables of an upload: the text lastDocumentText held when the
\* upload assigned it, and whether the assignment changed it.
Request(kind, sid, pc) ==
  [kind |-> kind, sid |-> sid, pc |-> pc, text |-> <<>>, question |-> <<>>,
   session |-> NewSession, prompt |-> NoPrompt, wrote |-> FALSE,
   replaced |-> <<>>]

Add(bag, r) == bag (+) SetToBag({r})
Remove(bag, r) == bag (-) SetToBag({r})
InFlight == BagToSet(inflight)
HasRoom == BagCardinality(inflight) < MaxReq

NoUpload == [text |-> <<>>, replaced |-> <<>>]
NoProbe == [fn |-> "none"]

Init ==
  /\ apiKey \in BOOLEAN
  /\ lastDocumentText = <<>>
  /\ lastExtracted = Null
  /\ store = [s \in Sessions |-> NewSession]
  /\ inflight = EmptyBag
  /\ now = 0
  /\ resp = NoResponse
  /\ uploadSucceeded = FALSE
  /\ lastUpload = NoUpload
  /\ probe = NoProbe

(***************************************************************************)
(* POST /api/upload                                                        *)
(***************************************************************************)
NoFile == [present |-> FALSE, mimetype |-> <<>>]
Files ==
  {NoFile} \cup
  {[present |-> TRUE, mimetype |-> m] :
     m \in {TextPlain, ApplicationPdf, ImagePng, ApplicationZip}}

\* What the file system, the PDF parser and the vision model may do.
Io(read, content, parse, vision, ocr) ==
  [read |-> read, content |-> content, parse |-> parse, vision |-> vision, ocr |-> ocr]

IoOutcomes ==
  {Io(FALSE, <<>>, "ok", "ok", <<>>),                  \* the file cannot be read
   Io(TRUE, <<>>, "ok", "ok", <<>>),                   \* nothing to read anywhere
   Io(TRUE, <<" ">>, "throws", "ok", <<" ">>),         \* only whitespace
   Io(TRUE, <<"B">>, "ok", "throws", <<>>),            \* native text, vision fails
   Io(TRUE, <<"w">>, "ok", "ok", <<" ", "B", "\n">>),  \* native text at the threshold
   Io(TRUE, <<"A">>, "throws", "ok", <<"B">>)}         \* parser throws, OCR text

\* The request arrives: session middleware, multer (fileFilter), then the
\* handler up to `await extractTextFromFile`.
UploadRequest(sid, file) ==
  /\ HasRoom
  /\ UNCHANGED <<apiKey, probe, lastDocumentText, lastExtracted, store, now,
                 uploadSucceeded, lastUpload>>
  /\ IF file.present /\ ~fileFilter(file.mimetype)
     THEN \* multer passes the error to express's default error handler
          /\ resp' = ErrorResponse("upload", sid, 500, "request", "Unsupported file type")
          /\ UNCHANGED inflight
     ELSE IF ~file.present
     THEN /\ resp' = ErrorResponse("upload", sid, 400, "request", "No file uploaded")
          /\ UNCHANGED inflight
     ELSE /\ inflight' =
               Add(inflight,
                   [Request("upload", sid, "extractText") EXCEPT
                      !.session = IF store[sid] = ResetSession
                                  THEN ResetSession ELSE NewSession])
          /\ UNCHANGED resp

\* What extractTextFromFile(req.file.path, req.file.mimetype) can settle to
\* for a file that passed fileFilter (the file is read here for the first
\* time), with and without the API key.
ExtractionsWithKey ==
  {extractTextFromFile(f.mimetype, io, TRUE) :
     f \in {g \in Files : g.present /\ fileFilter(g.mimetype)}, io \in IoOutcomes}
ExtractionsWithoutKey ==
  {extractTextFromFile(f.mimetype, io, FALSE) :
     f \in {g \in Files : g.present /\ fileFilter(g.mimetype)}, io \in IoOutcomes}
Extractions(key) == IF key THEN ExtractionsWithKey ELSE ExtractionsWithoutKey

\* Faulty variant of IsUnreadable: only !text, without the trim.
IsUnreadableNoTrim(text) == text = <<>>

\* !text || !text.trim()
IsUnreadable(text) == text = <<>> \/ Trim(text) = <<>>

\* req.session.history = [] on the upload's copy of the session
ResetHistory(session) == ResetSession

\* Faulty variant of UploadExtracted: the blank-text branch sends its 400
\* without `return`, so the handler runs on to extractFields and responds a
\* second time.
UploadExtractedNoReturn(r, got) ==
  /\ r \in InFlight /\ r.kind = "upload" /\ r.pc = "extractText"
  /\ UNCHANGED <<apiKey, probe, lastExtracted, store, now, uploadSucceeded,
                 lastUpload>>
  /\ LET text == got.text
         goesOn == [r EXCEPT !.pc = "extractFields", !.text = text,
                             !.prompt = FieldsPrompt(text),
                             !.wrote = (text # lastDocumentText),
                             !.replaced = lastDocumentText]
     IN  IF got.threw
         THEN /\ resp' = [ErrorResponse("upload", r.sid, 500, r.pc,
                                        "Failed to process upload")
                           EXCEPT !.got = Settled(got)]
              /\ inflight' = Remove(inflight, r)
              /\ UNCHANGED lastDocumentText
         ELSE IF IsUnreadable(text)
         THEN /\ resp' = [ErrorResponse("upload", r.sid, 400, r.pc,
                                        "Uploaded file is empty or unreadable")
                           EXCEPT !.got = Settled(got)]
              /\ lastDocumentText' = text
              /\ inflight' = Add(Remove(inflight, r), goesOn)
         ELSE /\ lastDocumentText' = text
              /\ IF ~apiKey
                 THEN /\ resp' = [ErrorResponse("upload", r.sid, 500, r.pc,
                                                "Failed to process upload")
                                   EXCEPT !.got = Settled(got)]
                      /\ inflight' = Remove(inflight, r)
                 ELSE /\ inflight' = Add(Remove(inflight, r), goesOn)
                      /\ UNCHANGED resp

\* extractTextFromFile settles; the handler runs on to `await model.invoke`
\* inside extractFields, or responds.
UploadExtracted(r, got) ==
  /\ r \in InFlight /\ r.kind = "upload" /\ r.pc = "extractText"
  /\ UNCHANGED <<apiKey, probe, lastExtracted, store, now, uploadSucceeded,
                 lastUpload>>
  /\ LET text == got.text
     IN  IF got.threw
         THEN /\ resp' = [ErrorResponse("upload", r.sid, 500, r.pc,
                                        "Failed to process upload")
                           EXCEPT !.got = Settled(got)]
              /\ inflight' = Remove(inflight, r)
              /\ UNCHANGED lastDocumentText
         ELSE IF IsUnreadable(text)
         THEN /\ resp' = [ErrorResponse("upload", r.sid, 400, r.pc,
                                        "Uploaded file is empty or unreadable")
                           EXCEPT !.got = Settled(got)]
              /\ inflight' = Remove(inflight, r)
              /\ UNCHANGED lastDocumentText
         ELSE /\ lastDocumentText' = text
              /\ IF ~apiKey   \* getModel throws inside extractFields
                 THEN /\ resp' = [ErrorResponse("upload", r.sid, 500, r.pc,
                                                "Failed to process upload")
                                   EXCEPT !.got = Settled(got)]
                      /\ inflight' = Remove(inflight, r)
                 ELSE /\ inflight' =
                           Add(Remove(inflight, r),
                               [r EXCEPT !.pc = "extractFields", !.text = text,
                                         !.prompt = FieldsPrompt(text),
                                         !.wrote = (text # lastDocumentText),
                                         !.replaced = lastDocumentText])
                      /\ UNCHANGED resp

\* The replies the chat model may give to the field-extraction prompt.
FieldReplies ==
  {StringMessage(<<"{A}">>),
   StringMessage(<<Fence, "json", "\n", "{A}", "\n", Fence>>),
   StringMessage(<<"x">>),
   StringMessage(<<"null">>)}

Throws == [shape |-> "throws", parts |-> <<>>]

\* model.invoke settles inside extractFields; the handler runs to its end.
UploadFields(r, ai) ==
  /\ r \in InFlight /\ r.kind = "upload" /\ r.pc = "extractFields"
  /\ inflight' = Remove(inflight, r)
  /\ UNCHANGED <<apiKey, probe, lastDocumentText, now>>
  /\ IF ai = Throws
     THEN /\ resp' = ErrorResponse("upload", r.sid, 500, r.pc, "Failed to process upload")
          /\ UNCHANGED <<lastExtracted, store, uploadSucceeded, lastUpload>>
     ELSE LET extracted == safeParseJson(pickTextFromAiMessage(ai))
          IN  /\ lastExtracted' = extracted
              /\ store' = SaveSession(store, r.sid, r.session, ResetHistory(r.session))
              /\ resp' = [Response("upload", r.sid, 200, r.pc) EXCEPT
                            !.extracted = extracted,
                            !.cleared = Len(HistoryOf(store[r.sid]))]
              /\ uploadSucceeded' = TRUE
              /\ lastUpload' = [text |-> r.text, replaced |-> r.replaced]

(***************************************************************************)
(* POST /api/ask                                                           *)
(***************************************************************************)
\* req.body.question as the client sent it
QuestionInputs ==
  {[type |-> "absent", text |-> <<>>],
   [type |-> "number", text |-> <<"7">>],
   [type |-> "string", text |-> <<" ">>],
   [type |-> "string", text |-> <<"q", " ">>]}

\* (req.body && req.body.question) || ""
QuestionOf(input) ==
  IF input.type = "absent" \/ (input.type = "number" /\ input.text = <<"0">>)
  THEN [type |-> "string", text |-> <<>>]
  ELSE input

\* The request arrives: the session middleware loads the session and the
\* handler runs up to `await model.invoke` inside answerQuestion, or responds.
AskRequest(sid, input, maxTurns) ==
  /\ HasRoom
  /\ Len(HistoryOf(store[sid])) < maxTurns
  /\ UNCHANGED <<apiKey, probe, lastDocumentText, lastExtracted, store, now,
                 uploadSucceeded, lastUpload>>
  /\ LET question == QuestionOf(input)
     IN  IF question.type # "string"   \* question.trim is not a function
         THEN /\ resp' = ErrorResponse("ask", sid, 500, "request", "Failed to answer question")
              /\ UNCHANGED inflight
         ELSE IF Trim(question.text) = <<>>
         THEN /\ resp' = ErrorResponse("ask", sid, 400, "request", "Missing question")
              /\ UNCHANGED inflight
         ELSE IF lastDocumentText = <<>>
         THEN /\ resp' = ErrorResponse("ask", sid, 400, "request", "No document uploaded yet")
              /\ UNCHANGED inflight
         ELSE IF ~apiKey   \* getModel throws inside answerQuestion
         THEN /\ resp' = ErrorResponse("ask", sid, 500, "request", "Failed to answer question")
              /\ UNCHANGED inflight
         ELSE /\ inflight' =
                   Add(inflight,
                       [Request("ask", sid, "answer") EXCEPT
                          !.question = question.text, !.session = store[sid],
                          !.prompt = AnswerPrompt(lastDocumentText, question.text,
                                                  HistoryOf(store[sid]))])
              /\ UNCHANGED resp

\* The replies the chat model may give to a question.
AnswerReplies == {StringMessage(<<"a">>), StringMessage(<<" ", "a", "\n">>)}

\* Faulty variant of PushTurn: unshift instead of push.
PushTurnFirst(session, turn) ==
  [defined |-> TRUE, history |-> <<turn>> \o HistoryOf(session)]

\* req.session.history.push({q, a, ts}) on the request's copy of the session
PushTurn(session, turn) ==
  [defined |-> TRUE, history |-> Append(HistoryOf(session), turn)]

\* Faulty variant of AskAnswered: the turn is pushed before the model call
\* is awaited, so a failed call leaves a turn without an answer behind.
AskAnsweredPersists(r, ai, ts) ==
  /\ r \in InFlight /\ r.kind = "ask" /\ r.pc = "answer"
  /\ inflight' = Remove(inflight, r)
  /\ UNCHANGED <<apiKey, probe, lastDocumentText, lastExtracted, uploadSucceeded,
                 lastUpload>>
  /\ LET answer == IF ai = Throws THEN <<>> ELSE Trim(pickTextFromAiMessage(ai))
         turn == [q |-> r.question, a |-> answer, ts |-> ts,
                  sid |-> r.sid, doc |-> r.prompt.document]
     IN  /\ ts >= now
         /\ now' = ts
         /\ store' = SaveSession(store, r.sid, r.session, PushTurn(r.session, turn))
         /\ resp' = IF ai = Throws
                    THEN ErrorResponse("ask", r.sid, 500, r.pc, "Failed to answer question")
                    ELSE [Response("ask", r.sid, 200, r.pc) EXCEPT !.answer = answer]

\* model.invoke settles inside answerQuestion; the handler runs to its end.
AskAnswered(r, ai, ts) ==
  /\ r \in InFlight /\ r.kind = "ask" /\ r.pc = "answer"
  /\ inflight' = Remove(inflight, r)
  /\ UNCHANGED <<apiKey, probe, lastDocumentText, lastExtracted, uploadSucceeded,
                 lastUpload>>
  /\ IF ai = Throws
     THEN /\ resp' = ErrorResponse("ask", r.sid, 500, r.pc, "Failed to answer question")
          /\ UNCHANGED <<store, now>>
     ELSE LET answer == Trim(pickTextFromAiMessage(ai))
              turn == [q |-> r.question, a |-> answer, ts |-> ts,
                       sid |-> r.sid, doc |-> r.prompt.document]
          IN  /\ ts >= now
              /\ now' = ts
              /\ store' = SaveSession(store, r.sid, r.session, PushTurn(r.session, turn))
              /\ resp' = [Response("ask", r.sid, 200, r.pc) EXCEPT !.answer = answer]

(***************************************************************************)
(* POST /api/history/clear, and the two handlers that only read:           *)
(* GET /api/history and GET /api/extracted change no state, so their       *)
(* actions leave every variable unchanged and their responses are the      *)
(* state functions HistoryResponse and ExtractedResponse.                  *)
(***************************************************************************)
ClearSession(st, sid) == SaveSession(st, sid, st[sid], ResetSession)

ClearHistory(sid) ==
  /\ store' = ClearSession(store, sid)
  /\ resp' = [Response("clear", sid, 200, "request") EXCEPT
                !.cleared = Len(HistoryOf(store[sid]))]
  /\ UNCHANGED <<apiKey, probe, lastDocumentText, lastExtracted, inflight, now,
                 uploadSucceeded, lastUpload>>

\* res.json({ history: req.session.history || [] })
HistoryResponse(sid) == HistoryOf(store[sid])

\* res.json({ extracted: lastExtracted || null })
ExtractedResponse == IF Truthy(lastExtracted) THEN lastExtracted ELSE Null

GetHistory(sid) ==
  /\ sid \in DOMAIN store
  /\ UNCHANGED vars

GetExtracted(sid) ==
  /\ sid \in DOMAIN store
  /\ UNCHANGED vars

(***************************************************************************)
(* Workloads.  A workload bounds what the clients send: the sessions that  *)
(* issue requests, the files they upload, the texts extracted from them,   *)
(* the replies the chat model gives to the field-extraction prompt, the    *)
(* question bodies, the history length up to which the clients keep asking *)
(* and the values the clock takes.                                         *)
(***************************************************************************)
Workload(sessions, files, texts, replies, questions, maxTurns, maxClock) ==
  [sessions |-> sessions, files |-> files, texts |-> texts, replies |-> replies,
   questions |-> questions, maxTurns |-> maxTurns, maxClock |-> maxClock]

Admits(w, got) == got.threw \/ got.text \in w.texts

Blank == {<<>>, <<" ">>}
PlainFile == [present |-> TRUE, mimetype |-> TextPlain]
Question == [type |-> "string", text |-> <<"q", " ">>]

NextOver(w) ==
  \/ \E sid \in w.sessions, file \in w.files : UploadRequest(sid, file)
  \/ \E r \in InFlight, got \in Extractions(apiKey) :
       Admits(w, got) /\ UploadExtracted(r, got)
  \/ \E r \in InFlight, ai \in w.replies \cup {Throws} : UploadFields(r, ai)
  \/ \E sid \in w.sessions, input \in w.questions :
       AskRequest(sid, input, w.maxTurns)
  \/ \E r \in InFlight, ai \in AnswerReplies \cup {Throws}, ts \in 0..w.maxClock :
       AskAnswered(r, ai, ts)
  \/ \E sid \in w.sessions : ClearHistory(sid)
  \/ \E sid \in w.sessions : GetHistory(sid)
  \/ \E sid \in w.sessions : GetExtracted(sid)

\* One browser session, two documents.
Next ==
  NextOver(Workload({"s1"}, Files, Blank \cup {<<"A">>, <<"B">>}, FieldReplies,
                    QuestionInputs, MaxTurns, 0))
Spec == Init /\ [][Next]_vars

\* One browser session, one readable document, every kind of file and of
\* question, longer histories, the clock advances.
NextLong ==
  NextOver(Workload({"s1"}, Files, Blank \cup {<<"A">>}, {StringMessage(<<"{A}">>)},
                    QuestionInputs, MaxTurnsLong, MaxClock))
SpecLong == Init /\ [][NextLong]_vars

\* Two browser sessions, one document.
NextSessions ==
  NextOver(Workload(Sessions, {PlainFile}, {<<"A">>}, {StringMessage(<<"{A}">>)},
                    {Question}, MaxTurnsLong, 0))
SpecSessions == Init /\ [][NextSessions]_vars

\* Two browser sessions, two documents (a text file and a PDF).
PdfFile == [present |-> TRUE, mimetype |-> ApplicationPdf]

NextShared ==
  NextOver(Workload(Sessions, {PlainFile, PdfFile}, {<<"A">>, <<"B">>},
                    {StringMessage(<<"{A}">>)}, {Question}, MaxTurns, 0))
SpecShared == Init /\ [][NextShared]_vars

\* Two browser sessions whose clients wait for the response to one request
\* before they send the next, every kind of file and of question.  Every
\* external call a suspended handler awaits (file read, native parse, model
\* call) eventually returns or throws.
LiveWorkload ==
  Workload(Sessions, Files, Blank \cup {<<"A">>}, {StringMessage(<<"{A}">>)},
           QuestionInputs, MaxTurns, 0)

Busy(sid) == \E r \in InFlight : r.sid = sid

\* the awaited call of session sid's suspended request settles and the
\* handler runs on to its next await or to its response
Settles(sid) ==
  \E r \in InFlight :
     /\ r.sid = sid
     /\ \/ \E got \in Extractions(apiKey) :
               Admits(LiveWorkload, got) /\ UploadExtracted(r, got)
        \/ \E ai \in LiveWorkload.replies \cup {Throws} : UploadFields(r, ai)
        \/ \E ai \in AnswerReplies \cup {Throws} : AskAnswered(r, ai, now)

NextLive ==
  \/ \E sid \in Sessions, file \in LiveWorkload.files :
       ~Busy(sid) /\ UploadRequest(sid, file)
  \/ \E sid \in Sessions, input \in LiveWorkload.questions :
       ~Busy(sid) /\ AskRequest(sid, input, LiveWorkload.maxTurns)
  \/ \E sid \in Sessions : ~Busy(sid) /\ ClearHistory(sid)
  \/ \E sid \in Sessions : ~Busy(sid) /\ GetHistory(sid)
  \/ \E sid \in Sessions : ~Busy(sid) /\ GetExtracted(sid)
  \/ \E sid \in Sessions : Settles(sid)

CallsSettle == \A sid \in Sessions : WF_vars(Settles(sid))

SpecLive == Init /\ [][NextLive]_vars /\ CallsSettle

(***************************************************************************)
(* The service after one upload and n answered questions of session s1,    *)
(* asked one after the other at clock readings 1..n; from there on         *)
(* questions only, all answered within the clock's reading n.              *)
(***************************************************************************)
AnsweredTurn(i) ==
  [q |-> Question.text, a |-> <<"a">>, ts |-> i, sid |-> "s1", doc |-> <<"A">>]

InitPrompt ==
  /\ apiKey = TRUE
  /\ lastDocumentText = <<"A">>
  /\ lastExtracted = safeParseJson(<<"{A}">>)
  /\ \E n \in 0..MaxHistory :
       /\ store = [s \in Sessions |->
                     IF s = "s1"
                     THEN [defined |-> TRUE, history |-> [i \in 1..n |-> AnsweredTurn(i)]]
                     ELSE NewSession]
       /\ now = n
       /\ resp = IF n = 0
                 THEN [Response("upload", "s1", 200, "extractFields") EXCEPT
                         !.extracted = safeParseJson(<<"{A}">>)]
                 ELSE [Response("ask", "s1", 200, "answer") EXCEPT !.answer = <<"a">>]
  /\ inflight = EmptyBag
  /\ uploadSucceeded = TRUE
  /\ lastUpload = [text |-> <<"A">>, replaced |-> <<>>]
  /\ probe = NoProbe

NextPrompt ==
  \/ AskRequest("s1", Question, MaxHistory + 1)
  \/ \E r \in InFlight, ai \in AnswerReplies \cup {Throws} : AskAnswered(r, ai, now)
  \/ GetHistory("s1")

SpecPrompt == InitPrompt /\ [][NextPrompt]_vars

(***************************************************************************)
(* The two pure functions of geminiService.js on their own: a probe holds  *)
(* the arguments of one call and, once the call was made, its result.      *)
(***************************************************************************)
MimeTypes ==
  {TextPlain, ApplicationPdf, ImagePng, ApplicationZip, <<>>,
   <<"APPLICATION", "/", "PDF">>, <<"application", "/", "x-pdf">>}

IoCases ==
  {Io(read, content, parse, vision, ocr) :
     read \in BOOLEAN,
     content \in {<<>>, <<" ">>, <<"w">>, <<" ", "A", "\n">>, <<"B">>},
     parse \in {"ok", "throws"},
     vision \in {"ok", "throws"},
     ocr \in {<<>>, <<" ", "B", "\n">>}}

InitService ==
  /\ apiKey \in BOOLEAN
  /\ lastDocumentText = <<>>
  /\ lastExtracted = Null
  /\ store = [s \in Sessions |-> NewSession]
  /\ inflight = EmptyBag
  /\ now = 0
  /\ resp = NoResponse
  /\ uploadSucceeded = FALSE
  /\ lastUpload = NoUpload

Service == <<apiKey, lastDocumentText, lastExtracted, store, inflight, now, resp,
             uploadSucceeded, lastUpload>>

InitExtract ==
  /\ InitService
  /\ \E mimeType \in MimeTypes, io \in IoCases :
       probe = [fn |-> "extractTextFromFile", mimeType |-> mimeType, io |-> io,
                done |-> FALSE, result |-> Returned(<<>>, 0, 0)]

ExtractText ==
  /\ probe.fn = "extractTextFromFile" /\ ~probe.done
  /\ probe' = [probe EXCEPT
                 !.done = TRUE,
                 !.result = extractTextFromFile(probe.mimeType, probe.io, apiKey)]
  /\ UNCHANGED Service

SpecExtract == InitExtract /\ [][ExtractText]_vars

\* Replies of the chat model: a body as it is, or inside a fenced block with
\* or without the json tag, with or without line breaks around the body and
\* with or without prose around the block.
Bodies ==
  {<<"{A}">>, <<"{B}">>, <<"null">>, <<"7">>, <<"[]">>, <<"\"s\"">>,
   <<" ", "{A}", "\n">>, ObjectQuotingFence,
   <<"x">>, <<"x", " ", "{A}">>, <<>>}

Styles ==
  {[fenced |-> FALSE, tag |-> "", breaks |-> FALSE, prose |-> FALSE]} \cup
  [fenced : {TRUE}, tag : {"", "json", "JSON"}, breaks : BOOLEAN, prose : BOOLEAN]

Reply(style, body) ==
  IF ~style.fenced THEN body
  ELSE LET tag == IF style.tag = "" THEN <<>> ELSE <<style.tag>>
           gap == IF style.breaks THEN <<"\n">> ELSE <<>>
           block == <<Fence>> \o tag \o gap \o body \o gap \o <<Fence>>
       IN  IF style.prose THEN <<"x", " ">> \o block \o <<"\n", "x">> ELSE block

InitParse ==
  /\ InitService
  /\ \E style \in Styles, body \in Bodies :
       probe = [fn |-> "safeParseJson", style |-> style, body |-> body,
                text |-> Reply(style, body), done |-> FALSE, result |-> Null]

ParseReply ==
  /\ probe.fn = "safeParseJson" /\ ~probe.done
  /\ probe' = [probe EXCEPT !.done = TRUE, !.result = safeParseJson(probe.text)]
  /\ UNCHANGED Service

SpecParse == InitParse /\ [][ParseReply]_vars

(***************************************************************************)
(* Steps, as the properties below name them.                               *)
(***************************************************************************)
Persisted == <<lastDocumentText, lastExtracted, store>>

\* the step in which the suspended request r sends its response
Responds(r, kind, status) ==
  /\ r \in InFlight /\ r.kind = kind
  /\ inflight' = Remove(inflight, r)
  /\ resp'.kind = kind /\ resp'.sid = r.sid /\ resp'.stage = r.pc
  /\ resp'.status = status

\* the step in which a request responds without having been suspended
RespondsAtOnce(kind, status) ==
  /\ inflight' = inflight
  /\ resp'.kind = kind /\ resp'.stage = "request" /\ resp'.status = status

\* the step in which a request is suspended for the first time
Suspends(kind) ==
  \E r \in BagToSet(inflight') :
     r.kind = kind /\ r.pc \in {"extractText", "answer"} /\ inflight' = Add(inflight, r)

(***************************************************************************)
(* Properties.                                                             *)
(***************************************************************************)

\* C1: an upload that ends in a 500 response persists no partial state: the
\* step that sends the 500 changes neither lastDocumentText nor lastExtracted
\* nor any session, and lastDocumentText is not a text this request stored
\* in place of another one.  (Violated: lastDocumentText is assigned before
\* extractFields is awaited.)
UploadFailurePersistsNothing ==
  [][\A r \in InFlight :
        Responds(r, "upload", 500) =>
          /\ UNCHANGED Persisted
          /\ ~(r.wrote /\ lastDocumentText' = r.text)]_vars

\* C2: while an upload is suspended on the field-extraction call, the stored
\* document text is never the text of that upload put in place of another
\* one: text and fields change together.  (Violated.)
UploadIsAtomic ==
  \A r \in InFlight :
     (r.kind = "upload" /\ r.pc = "extractFields" /\ r.wrote)
       => lastDocumentText # r.text

\* C3: before any upload has succeeded, an ask is answered 400 and no ask is
\* suspended on a call of the language model.  (Violated.)
AskBeforeUploadIsRejected ==
  ~uploadSucceeded => \A r \in InFlight : r.kind # "ask"

\* C4: after an upload succeeded in a session, GET /api/history of that
\* session returns the empty list.  (Violated: an upload whose session was
\* loaded with an empty history does not write the session back, and a turn
\* stored meanwhile stays.)
UploadResetsHistory ==
  (resp.kind = "upload" /\ resp.status = 200) => HistoryResponse(resp.sid) = <<>>

\* C5: an upload whose extracted text is empty or whitespace-only never
\* reaches the field-extraction call, responds 400 "Uploaded file is empty
\* or unreadable" and changes neither lastDocumentText nor lastExtracted nor
\* any session.
BlankUploadIsRejected ==
  /\ [](\A r \in InFlight :
          (r.kind = "upload" /\ r.pc = "extractFields") => Trim(r.text) # <<>>)
  /\ [][\A r \in InFlight, status \in {200, 400, 500} :
          (/\ Responds(r, "upload", status) /\ r.pc = "extractText"
           /\ ~resp'.got.threw /\ Trim(resp'.got.text) = <<>>)
            => /\ status = 400
               /\ resp'.error = "Uploaded file is empty or unreadable"
               /\ UNCHANGED Persisted]_vars

BlankUploadRejected ==
  /\ resp.kind = "upload" /\ resp.status = 400 /\ resp.stage = "extractText"
  /\ resp.got.text = <<" ">>
  /\ lastDocumentText # <<>> /\ Truthy(lastExtracted)
  /\ HistoryOf(store[resp.sid]) # <<>>

\* C6: the extracted value an upload returns with 200 is a JSON object.
\* (Violated: a reply that is valid JSON but no object is returned as parsed.)
ExtractedIsObject ==
  (resp.kind = "upload" /\ resp.status = 200) =>
     (IsJsonObject(resp.extracted) /\ IsJsonObject(lastExtracted))

\* C7: an ask that ends in a 400 or 500 response appends no turn and changes
\* neither lastDocumentText nor lastExtracted nor any session, in the step
\* that suspends it as in the step that responds.
AskFailurePersistsNothing ==
  [][(\/ \E status \in {400, 500} : RespondsAtOnce("ask", status)
      \/ Suspends("ask")
      \/ \E r \in InFlight, status \in {400, 500} : Responds(r, "ask", status))
       => UNCHANGED Persisted]_vars

AskFailedAfterTurn ==
  /\ resp.kind = "ask" /\ resp.status = 500 /\ resp.stage = "answer"
  /\ HistoryOf(store[resp.sid]) # <<>>
  /\ Truthy(lastExtracted)

NonDecreasing(h) == \A i, j \in 1..Len(h) : i <= j => h[i].ts <= h[j].ts

\* what an ask of question q has appended to history h when h2 is the result
AppendedTo(h, h2, q) ==
  /\ Len(h2) = Len(h) + 1
  /\ SubSeq(h2, 1, Len(h)) = h
  /\ h2[Len(h2)].q = q
  /\ NonDecreasing(h2)

\* C8, as stated: every ask that responds 200 appends exactly one turn with
\* its question to the end of the history its session holds, changing no
\* earlier turn, with non-decreasing ts.  (Violated by two asks of one
\* session that overlap: the second to respond drops the turn of the first.)
AskAppendsToStored ==
  [][\A r \in InFlight :
        Responds(r, "ask", 200) =>
          AppendedTo(HistoryOf(store[r.sid]), HistoryOf(store'[r.sid]), r.question)]_vars

\* C8, amended: every ask that responds 200 stores the history its request
\* loaded followed by exactly one turn with its question, with non-decreasing
\* ts; when the session was not written since the request loaded it, that is
\* the stored history with one turn appended.
AskAppendsToLoaded ==
  [][\A r \in InFlight :
        Responds(r, "ask", 200) =>
          /\ AppendedTo(HistoryOf(r.session), HistoryOf(store'[r.sid]), r.question)
          /\ store[r.sid] = r.session =>
               AppendedTo(HistoryOf(store[r.sid]), HistoryOf(store'[r.sid]), r.question)]_vars

TwoTurnsInOrder ==
  /\ resp.kind = "ask" /\ resp.status = 200
  /\ Len(HistoryOf(store[resp.sid])) = 2
  /\ HistoryOf(store[resp.sid])[1].ts < HistoryOf(store[resp.sid])[2].ts

\* C9: the history block of an ask's prompt holds the last HistoryWindow
\* turns of the history supplied (all of them when there are fewer), in
\* their order, numbered from 1: for n turns, turns max(0, n-12)+1 .. n; an
\* empty history gives no block.
PromptUsesLastTurns ==
  \A r \in InFlight :
     r.kind = "ask" =>
       LET h == HistoryOf(r.session)
           n == Len(h)
           skipped == IF n > HistoryWindow THEN n - HistoryWindow ELSE 0
           block == r.prompt.historyBlock
       IN  /\ Len(block) = n - skipped
           /\ Len(block) <= HistoryWindow
           /\ \A i \in 1..Len(block) :
                /\ block[i].turn = i
                /\ block[i].q = h[skipped + i].q
                /\ block[i].a = h[skipped + i].a
                /\ block[i].ts = h[skipped + i].ts

PromptDropsOldTurns ==
  \E r \in InFlight :
     /\ r.kind = "ask"
     /\ Len(HistoryOf(r.session)) > HistoryWindow
     /\ r.prompt.historyBlock[1].ts = Len(HistoryOf(r.session)) - HistoryWindow + 1

\* the session a step acts for
ActsFor(s) ==
  \/ \E r \in InFlight : r.sid = s /\ inflight' = Remove(inflight, r)
  \/ inflight' = inflight /\ resp'.kind = "clear" /\ resp'.sid = s

\* C10: every turn of a session's history was appended by an ask of that
\* session, no prompt of an ask holds a turn of another session, and a step
\* changes the stored session only of the session whose request it serves.
SessionsAreIsolated ==
  /\ [](/\ \A s \in Sessions :
             \A i \in 1..Len(HistoryOf(store[s])) : HistoryOf(store[s])[i].sid = s
        /\ \A r \in InFlight :
             \A i \in 1..Len(r.prompt.historyBlock) :
                r.prompt.historyBlock[i].sid = r.sid)
  /\ [][\A s \in Sessions : store'[s] # store[s] => ActsFor(s)]_vars

BothSessionsHoldTurns ==
  /\ \A s \in Sessions : HistoryOf(store[s]) # <<>>
  /\ \E r \in InFlight : r.kind = "ask" /\ r.prompt.historyBlock # <<>>

\* C11: POST /api/history/clear answers 200 {ok: true}, leaves the calling
\* session with an empty history and changes neither lastDocumentText nor
\* lastExtracted nor the stored session of any other client; an ask that
\* follows in that session is sent with the stored document text and with
\* no history block.
ClearOnlyClearsHistory ==
  /\ [][\A s \in Sessions :
          (inflight' = inflight /\ resp'.kind = "clear" /\ resp'.sid = s)
            => /\ resp'.status = 200
               /\ HistoryResponse(s)' = <<>>
               /\ UNCHANGED <<lastDocumentText, lastExtracted>>
               /\ \A t \in Sessions \ {s} : store'[t] = store[t]]_vars
  /\ [][resp.kind = "clear" =>
          \A r \in BagToSet(inflight') :
             (r.kind = "ask" /\ r.sid = resp.sid /\ inflight' = Add(inflight, r)) =>
               /\ r.prompt.document = lastDocumentText
               /\ r.prompt.document # <<>>
               /\ r.prompt.historyBlock = <<>>]_vars

ClearedTurnsOfOneSession ==
  /\ resp.kind = "clear" /\ resp.cleared > 0
  /\ \E t \in Sessions \ {resp.sid} : HistoryOf(store[t]) # <<>>
  /\ \E r \in InFlight : r.kind = "ask" /\ r.sid = resp.sid /\ r.session = ResetSession

\* C12: after a successful upload every turn held in a session's history
\* was answered against the stored document.  (Violated: the upload resets
\* the history of its own session only, the document is shared by all.)
TurnsAreOfStoredDocument ==
  (resp.kind = "upload" /\ resp.status = 200) =>
     \A s \in Sessions :
        \A i \in 1..Len(HistoryOf(store[s])) :
           HistoryOf(store[s])[i].doc = lastDocumentText

\* C13: an upload whose declared media type the file filter refuses is
\* answered with a 400-class status.  (Violated: the filter's error reaches
\* the default error handler, which answers 500.)
UnsupportedTypeIsClientError ==
  (resp.kind = "upload" /\ resp.error = "Unsupported file type") =>
     resp.status \in 400..499

\* C14: extractTextFromFile never throws on content it cannot read: when the
\* file read fails, or the vision model was called and the call failed, the
\* empty string is returned.  (Violated: only the plain-text branch catches.)
UnreadableGivesEmptyText ==
  (/\ probe.fn = "extractTextFromFile" /\ probe.done
   /\ \/ ~probe.io.read
      \/ probe.result.vision = 1 /\ probe.io.vision = "throws")
    => (~probe.result.threw /\ probe.result.text = <<>>)

IsPdf(mimeType) == IncludesPdf(toLowerCase(mimeType))
IsImage(mimeType) == ~IsPdf(mimeType) /\ StartsWithImage(toLowerCase(mimeType))

\* the native parse of a PDF succeeded with more than 50 characters
NativeTextSuffices(io) ==
  io.parse = "ok" /\ StrLength(Trim(io.content)) > 50

FencingIsTransparent ==
  (probe.fn = "safeParseJson" /\ probe.done) =>
     /\ (probe.style.fenced /\ JSONparse(probe.body) # SyntaxError)
          => probe.result = JSONparse(probe.body)
     /\ (JSONparse(probe.text) = SyntaxError /\ JSONparse(probe.body) = SyntaxError)
          => probe.result = [kind |-> "object", raw |-> TRUE, body |-> Trim(probe.text)]

\* C17: the service starts with no document and no fields; a stored
\* document text never becomes empty or whitespace-only again; once a field
\* extraction has completed GET /api/extracted no longer returns null.
\* (Violated: a reply that parses to null, or to another falsy value, is
\* stored as the extracted fields.)
DocumentLifecycleIsMonotone ==
  /\ lastDocumentText = <<>> /\ lastExtracted = Null
  /\ [][Trim(lastDocumentText) # <<>> => Trim(lastDocumentText') # <<>>]_vars
  /\ [](uploadSucceeded => ExtractedResponse # Null)

\* C18: whenever no upload is in flight and some upload has succeeded, the
\* stored fields are those extracted from the stored document text.
\* (Violated: the text is assigned before the extraction is awaited, the
\* fields after it, so two uploads can leave the text of one with the fields
\* of the other, and a failed upload its text with the fields of an earlier.)
StoredPairIsOfOneUpload ==
  (uploadSucceeded /\ \A r \in InFlight : r.kind # "upload")
    => lastUpload.text = lastDocumentText

\* C19: once an upload that replaced the document has responded and no
\* request is in flight, no session holds a turn answered from the replaced
\* text.  (Violated: an ask suspended across the upload writes back the
\* history it loaded, with its turn.)
NoTurnSurvivesUpload ==
  (uploadSucceeded /\ inflight = EmptyBag /\ lastUpload.replaced # lastUpload.text)
    => \A s \in Sessions :
          \A i \in 1..Len(HistoryOf(store[s])) :
             HistoryOf(store[s])[i].doc # lastUpload.replaced

StatusCodes == {200, 400, 500}

\* C20: every accepted request sends exactly one response, with status 200,
\* 400 or 500, on every path.  A step of the service either is the response
\* of one suspended request, which thereby leaves the requests in flight
\* (its handler has returned and cannot respond again); or is a request
\* that is accepted and answered in the same step; or sends nothing and
\* finishes no request.  And, the awaited calls settling, a session that has
\* a request in flight eventually has none: the request has been answered.
EveryRequestRespondsOnce ==
  /\ [][\/ \E r \in InFlight :
             Responds(r, r.kind, resp'.status) /\ resp'.status \in StatusCodes
        \/ \E kind \in {"upload", "ask", "clear"} :
             RespondsAtOnce(kind, resp'.status) /\ resp'.status \in StatusCodes
        \/ /\ resp' = resp
           /\ BagCardinality(inflight') >= BagCardinality(inflight)]_vars
  /\ \A sid \in Sessions : Busy(sid) ~> ~Busy(sid)

\* the catch branch has answered one session's upload while the other
\* session's ask is still waiting for the model
CatchBranchRespondedWhileAskWaits ==
  /\ resp.kind = "upload" /\ resp.status = 500 /\ resp.stage = "extractFields"
  /\ \E r \in InFlight : r.kind = "ask" /\ r.sid # resp.sid

====
